---- MODULE Spec2Model ----
(***************************************************************************)
(* Model of src/app.py: a Flask service with a startup routine             *)
(* (initialize_system) and three route handlers (home_page,                *)
(* handle_inference, provide_example_cases) around an opaque model wrapper *)
(* (model.BreastCancerModel) and a CSV dataset.                            *)
(*                                                                         *)
(* handle_inference is modelled in two steps, split at the call into the   *)
(* model wrapper: the validation loop (lines 33-47) and the predict call   *)
(* with the construction of the response (lines 50-73).  Between the two   *)
(* steps another worker thread may run.                                    *)
(***************************************************************************)
EXTENDS Integers, Sequences, FiniteSets, TLC

VARIABLES phase, artifact, dataset, cancer_detector, workers, reqs, validated_metrics

vars == <<phase, artifact, dataset, cancer_detector, workers, reqs, validated_metrics>>

----------------------------------------------------------------------------
(* Bounds of the model *)

\* resolution of the probability grid: a probability is p / ProbScale
ProbScale == 100000

\* largest number of data rows of the CSV file
MaxRows == 2

\* request slots (worker threads) of the server
Requests == {"t1", "t2"}

----------------------------------------------------------------------------
(* JSON values and Python's float() *)

\* a JSON value: t is its JSON type, n its value when an integer, s its text when a string
JInt(n) == [t |-> "int", n |-> n, s |-> ""]
JStr(s) == [t |-> "str", n |-> 0, s |-> s]
JNull == [t |-> "null", n |-> 0, s |-> ""]
JList == [t |-> "list", n |-> 0, s |-> ""]
\* an integer literal whose magnitude is beyond the range of a double
JBigInt == [t |-> "bigint", n |-> 0, s |-> ""]

Values ==
    {JInt(0), JInt(1), JInt(-1), JStr("abc"), JStr("nan"), JNull, JList, JBigInt}

\* a Python float: a number or NaN
Num(n) == [nan |-> FALSE, n |-> n]
NaN == [nan |-> TRUE, n |-> 0]

FloatOk(x) == [ok |-> TRUE, val |-> x, exc |-> ""]
FloatRaise(e) == [ok |-> FALSE, val |-> Num(0), exc |-> e]

\* float(str): the numeric literals and "nan" parse, other text raises ValueError
StrToFloat(s) ==
    CASE s = "nan" -> FloatOk(NaN)
      [] s = "1" -> FloatOk(Num(1))
      [] s = "-1" -> FloatOk(Num(-1))
      [] OTHER -> FloatRaise("ValueError")

\* float(v) of line 42
Float(v) ==
    CASE v.t = "int" -> FloatOk(Num(v.n))
      [] v.t = "str" -> StrToFloat(v.s)
      [] v.t = "bigint" -> FloatRaise("OverflowError")
      [] OTHER -> FloatRaise("TypeError")

\* the check of line 43 left out
LtZeroOff(x) == FALSE

\* val < 0 of line 43: every comparison with NaN is false
LtZero(x) == (~ x.nan) /\ x.n < 0

----------------------------------------------------------------------------
(* The model wrapper (model.BreastCancerModel) *)

\* cancer_detector.feature_names of a loaded model
FeatureNames == <<"radius_mean", "texture_mean">>

FeatureSet == {FeatureNames[i] : i \in 1..Len(FeatureNames)}

\* what one call of predict can do: return (class, probability) or raise
Returned(c, p) == [raised |-> FALSE, class |-> c, probability |-> p]
PredictRaised == [raised |-> TRUE, class |-> 0, probability |-> 0]

\* the outcomes, in a fixed order, so that the weights can select one; the
\* probabilities are multiples of 1 / ProbScale in [0, 1], none of them a decimal
\* tie of the rounding (a double never holds such a tie exactly)
OutcomeTable ==
    <<Returned(1, 0), Returned(0, 0), Returned(1, 14), Returned(0, 14),
      Returned(1, 26), Returned(0, 26),
      Returned(1, (92 * ProbScale) \div 100), Returned(0, (92 * ProbScale) \div 100),
      Returned(1, ProbScale - 4), Returned(0, ProbScale - 4),
      Returned(1, ProbScale), Returned(0, ProbScale), PredictRaised>>

\* the persisted weights: each selects a different input/output behaviour
Weights == 0 .. (Len(OutcomeTable) - 1)

\* a pure number drawn from a feature vector, by which a model tells vectors apart
RECURSIVE VectorCode(_, _, _)
VectorCode(names, i, vector) ==
    IF i > Len(names) THEN 0
    ELSE (IF names[i] \in DOMAIN vector
          THEN i * (IF vector[names[i]].nan THEN 2 ELSE vector[names[i]].n)
          ELSE 0)
         + VectorCode(names, i + 1, vector)

\* cancer_detector.predict(vector): deterministic in the loaded weights and the
\* vector; a wrapper that holds no model raises
predict(detector, vector) ==
    IF ~ detector.loaded THEN PredictRaised
    ELSE OutcomeTable[((detector.weights + VectorCode(FeatureNames, 1, vector))
                       % Len(OutcomeTable)) + 1]

\* BreastCancerModel() before or without a successful load_model();
\* whether its feature_names is a list or None is not fixed by app.py
Unloaded(has_names) ==
    [loaded |-> FALSE, has_names |-> has_names,
     feature_names |-> IF has_names THEN FeatureNames ELSE <<>>, weights |-> 0]

Loaded(w) ==
    [loaded |-> TRUE, has_names |-> TRUE, feature_names |-> FeatureNames, weights |-> w]

\* the serialized model artifact on disk
NoArtifact == [state |-> "absent", weights |-> 0]
CorruptArtifact == [state |-> "corrupt", weights |-> 0]
ValidArtifact(w) == [state |-> "valid", weights |-> w]
Artifacts == {NoArtifact, CorruptArtifact} \cup {ValidArtifact(w) : w \in Weights}

\* cancer_detector.load_model(): TRUE when the artifact could be read
load_model(a) == a.state = "valid"

----------------------------------------------------------------------------
(* Request bodies, as request.get_json() returns them *)

ExtraKey == "patient_id"

ObjectBody(m) == [kind |-> "object", fields |-> m, items |-> {}]
\* a JSON array of strings / a JSON string: items are the strings `in` finds in it
ArrayBody(items) == [kind |-> "array", fields |-> <<>>, items |-> items]
StringBody(items) == [kind |-> "string", fields |-> <<>>, items |-> items]
NullBody == [kind |-> "null", fields |-> <<>>, items |-> {}]
NumberBody == [kind |-> "number", fields |-> <<>>, items |-> {}]
\* a body get_json() cannot parse: it raises BadRequest
MalformedBody == [kind |-> "malformed", fields |-> <<>>, items |-> {}]

ObjectBodies ==
    {ObjectBody(m) :
        m \in UNION {[K -> Values] : K \in SUBSET (FeatureSet \cup {ExtraKey})}}

Bodies ==
    {b \in ObjectBodies : ExtraKey \in DOMAIN b.fields => b.fields[ExtraKey] = JInt(1)}
    \cup {ArrayBody({}), ArrayBody({FeatureNames[1]}),
          StringBody({}), StringBody(FeatureSet),
          NullBody, NumberBody, MalformedBody}

\* `field in data_input` is defined for a dict, a list and a str
Container(body) == body.kind \in {"object", "array", "string"}

\* field in data_input (line 38)
Contains(body, field) ==
    IF body.kind = "object" THEN field \in DOMAIN body.fields
    ELSE field \in body.items

----------------------------------------------------------------------------
(* Responses *)

NoResponse == [code |-> 0, kind |-> "none"]

\* f'Missing: {field}' and f'Invalid numeric data: {field}'
Message(text, field) == <<text, field>>

\* a message that leaves out the field
ValidationResponseBare(text, field) ==
    [code |-> 400, kind |-> "validation", success |-> FALSE,
     message |-> Message(text, "")]

\* lines 39 and 47
ValidationResponse(text, field) ==
    [code |-> 400, kind |-> "validation", success |-> FALSE,
     message |-> Message(text, field)]

\* the exception leaves the handler: Flask answers with its own error page
Unhandled(exc) == [code |-> 500, kind |-> "unhandled"]

\* line 73
ErrorResponse(exc) ==
    [code |-> 500, kind |-> "error", status |-> "error", details |-> exc]

\* round(score * 100, 2) of line 66, in hundredths of a percent; score is a
\* multiple of 1 / ProbScale; round() takes the nearest value, and the even
\* neighbour of an exact tie
Round2(score) ==
    LET x == score * 10000
        q == x \div ProbScale
        rem == x % ProbScale
    IN  IF 2 * rem < ProbScale THEN q
        ELSE IF 2 * rem > ProbScale THEN q + 1
        ELSE IF q % 2 = 0 THEN q ELSE q + 1

\* a slip of sign in line 54: 1.0 + probability
ScorePlus(is_healthy, probability) ==
    IF is_healthy THEN probability ELSE ProbScale + probability

\* the two branches of line 54 exchanged
ScoreSwapped(is_healthy, probability) ==
    IF is_healthy THEN ProbScale - probability ELSE probability

\* score = probability if is_healthy else (1.0 - probability)   (line 54)
Score(is_healthy, probability) ==
    IF is_healthy THEN probability ELSE ProbScale - probability

BenignText == "Analysis complete: The tumor is likely BENIGN."
MalignantText == "Analysis complete: The tumor is likely MALIGNANT."
Disclaimer == "For academic purposes only. Seek medical advice for diagnosis."

\* lines 53-70
SuccessResponse(predicted_class, probability) ==
    LET is_healthy == (predicted_class = 1)
        score == Score(is_healthy, probability)
    IN  [code |-> 200, kind |-> "success", status |-> "success",
         output |-> [label |-> IF is_healthy THEN "Benign" ELSE "Malignant",
                     is_benign |-> is_healthy,
                     confidence |-> Round2(score),
                     description |-> IF is_healthy THEN BenignText ELSE MalignantText,
                     disclaimer |-> Disclaimer]]

----------------------------------------------------------------------------
(* The validation loop of handle_inference, lines 33-47 *)

EmptyMetrics == <<>>

Validated(metrics) == [kind |-> "ok", metrics |-> metrics, response |-> NoResponse]
Returns(metrics, resp) == [kind |-> "return", metrics |-> metrics, response |-> resp]

\* the first failing field ends the loop with a response
RECURSIVE ValidateFields(_, _, _, _)
ValidateFields(names, i, data_input, metrics) ==
    IF i > Len(names) THEN Validated(metrics)
    ELSE LET field == names[i] IN
      IF ~ Container(data_input)
      THEN Returns(metrics, ErrorResponse("TypeError"))
      ELSE IF ~ Contains(data_input, field)
      THEN Returns(metrics, ValidationResponse("Missing: ", field))
      ELSE IF data_input.kind # "object"
      THEN Returns(metrics, ValidationResponse("Invalid numeric data: ", field))
      ELSE LET conv == Float(data_input.fields[field]) IN
        IF ~ conv.ok
        THEN IF conv.exc \in {"ValueError", "TypeError"}
             THEN Returns(metrics, ValidationResponse("Invalid numeric data: ", field))
             ELSE Returns(metrics, ErrorResponse(conv.exc))
        ELSE IF LtZero(conv.val)
        THEN Returns(metrics, ValidationResponse("Invalid numeric data: ", field))
        ELSE ValidateFields(names, i + 1, data_input, (field :> conv.val) @@ metrics)

\* lines 33-47: get_json, then the loop over cancer_detector.feature_names
Validate(detector, data_input) ==
    IF data_input.kind = "malformed"
    THEN Returns(EmptyMetrics, ErrorResponse("BadRequest"))
    ELSE IF ~ detector.has_names
    THEN Returns(EmptyMetrics, ErrorResponse("TypeError"))
    ELSE ValidateFields(detector.feature_names, 1, data_input, EmptyMetrics)

----------------------------------------------------------------------------
(* The dataset file data/breast_cancer.csv *)

LabelColumn == "diagnosis"

MissingFile == [exists |-> FALSE, columns |-> {}, rows |-> <<>>]

\* row i of a file: its label and feature values that identify the row
DataRow(i, d) ==
    (LabelColumn :> d) @@ ("radius_mean" :> i) @@ ("texture_mean" :> 10 + i)

Csv(labels) ==
    [exists |-> TRUE,
     columns |-> {LabelColumn, "radius_mean", "texture_mean"},
     rows |-> [i \in 1..Len(labels) |-> DataRow(i, labels[i])]]

\* a file without the label column
NoLabelCsv ==
    [exists |-> TRUE, columns |-> {"radius_mean", "texture_mean"},
     rows |-> <<("radius_mean" :> 1) @@ ("texture_mean" :> 11)>>]

Datasets ==
    {MissingFile, NoLabelCsv}
    \cup {Csv(labels) : labels \in UNION {[1..n -> {0, 1}] : n \in 0..MaxRows}}

\* dataset[dataset['diagnosis'] == label]: the indices of the rows kept
RowsOfClass(ds, label) == {i \in 1..Len(ds.rows) : ds.rows[i][LabelColumn] = label}

\* the sampled row as it is
KeepColumns(row, cols) == row

\* .drop(columns=[...]).iloc[0].to_dict() of a sampled row
DropColumns(row, cols) == [c \in (DOMAIN row) \ cols |-> row[c]]

\* lines 86-92
SamplesResponse(benign, malignant) ==
    [code |-> 200, kind |-> "samples", success |-> TRUE,
     payload |-> [benign_case |-> benign, malignant_case |-> malignant]]

\* the failure reported as a success
SamplesFailureHidden(exc) ==
    [code |-> 200, kind |-> "samples_failed", success |-> TRUE, error |-> exc]

\* line 94: no status is given, so Flask answers 200
SamplesFailure(exc) ==
    [code |-> 200, kind |-> "samples_failed", success |-> FALSE, error |-> exc]

\* lines 79-94: every response the handler can give for a dataset
SampleResponses(ds) ==
    IF ~ ds.exists THEN {SamplesFailure("FileNotFoundError")}
    ELSE IF LabelColumn \notin ds.columns THEN {SamplesFailure("KeyError")}
    ELSE IF RowsOfClass(ds, 1) = {} \/ RowsOfClass(ds, 0) = {}
    THEN {SamplesFailure("ValueError")}
    ELSE {SamplesResponse(DropColumns(ds.rows[b], {LabelColumn}),
                          DropColumns(ds.rows[m], {LabelColumn})) :
            b \in RowsOfClass(ds, 1), m \in RowsOfClass(ds, 0)}

----------------------------------------------------------------------------
(* State *)

\* a worker thread that handles no request
IdleRequest ==
    [pc |-> "idle", route |-> "none", data_input |-> NullBody,
     response |-> NoResponse, calls |-> 0, arg |-> EmptyMetrics,
     predicted |-> PredictRaised, reads |-> 0]

\* validated_metrics as one module-level dictionary instead of a local
FrameShared(r) == "t1"

\* validated_metrics (line 34) is a local of the call frame of request r
Frame(r) == r

TypeOK ==
    /\ phase \in {"boot", "serving", "crashed"}
    /\ artifact \in Artifacts
    /\ dataset \in Datasets
    /\ cancer_detector.loaded \in BOOLEAN
    /\ workers \subseteq Requests
    /\ DOMAIN reqs = Requests
    /\ \A r \in Requests :
         /\ reqs[r].pc \in {"idle", "predict", "done"}
         /\ reqs[r].route \in {"none", "home", "predict", "samples"}
         /\ reqs[r].calls \in 0..1

\* lines 7-8: the application object and an unloaded model wrapper; the disk
\* holds some artifact and some dataset file; one worker thread
Init ==
    /\ phase = "boot"
    /\ artifact \in Artifacts
    /\ dataset \in Datasets
    /\ \E h \in BOOLEAN : cancer_detector = Unloaded(h)
    /\ workers = {"t1"}
    /\ reqs = [r \in Requests |-> IdleRequest]
    /\ validated_metrics = [r \in Requests |-> EmptyMetrics]

\* the same service run by a threaded server, on one disk content
InitThreaded ==
    /\ phase = "boot"
    /\ artifact = ValidArtifact(6)
    /\ dataset = Csv(<<1, 0>>)
    /\ cancer_detector = Unloaded(FALSE)
    /\ workers = Requests
    /\ reqs = [r \in Requests |-> IdleRequest]
    /\ validated_metrics = [r \in Requests |-> EmptyMetrics]

----------------------------------------------------------------------------
(* Startup, lines 10-19 *)

\* train_and_save_model() raises, or writes an artifact that may or may not load
TrainRaises == [state |-> "raise", weights |-> 0]
TrainOutcomes == {TrainRaises} \cup (Artifacts \ {NoArtifact})

initialize_system ==
    /\ phase = "boot"
    /\ IF load_model(artifact)
       THEN /\ cancer_detector' = Loaded(artifact.weights)
            /\ phase' = "serving"
            /\ UNCHANGED artifact
       ELSE \E t \in TrainOutcomes :
              IF t = TrainRaises
              THEN /\ phase' = "crashed"
                   /\ UNCHANGED <<artifact, cancer_detector>>
              ELSE /\ artifact' = t
                   /\ cancer_detector' =
                        IF load_model(t) THEN Loaded(t.weights) ELSE cancer_detector
                   /\ phase' = "serving"
    /\ UNCHANGED <<dataset, workers, reqs, validated_metrics>>

----------------------------------------------------------------------------
(* Route handlers *)

CanStart(r) ==
    /\ phase = "serving"
    /\ r \in workers
    /\ reqs[r].pc = "idle"

\* lines 21-27
home_page(r) ==
    /\ CanStart(r)
    /\ reqs' = [reqs EXCEPT ![r] =
                 [IdleRequest EXCEPT
                    !.pc = "done", !.route = "home",
                    !.response = [code |-> 200, kind |-> "page",
                                  template |-> "index.html",
                                  feature_names |-> cancer_detector.feature_names]]]
    /\ UNCHANGED <<phase, artifact, dataset, cancer_detector, workers, validated_metrics>>

\* lines 29-47: read the body and validate it; stop with a response, or go on
\* to the model with the validated vector
handle_inference(r) ==
    /\ CanStart(r)
    /\ \E body \in Bodies :
         LET res == Validate(cancer_detector, body) IN
           /\ validated_metrics' = [validated_metrics EXCEPT ![Frame(r)] = res.metrics]
           /\ reqs' = [reqs EXCEPT ![r] =
                        [IdleRequest EXCEPT
                           !.pc = IF res.kind = "ok" THEN "predict" ELSE "done",
                           !.route = "predict",
                           !.data_input = body,
                           !.response = res.response]]
    /\ UNCHANGED <<phase, artifact, dataset, cancer_detector, workers>>

\* lines 50-73: call the model wrapper and build the response
handle_inference_predict(r) ==
    /\ phase = "serving"
    /\ r \in workers
    /\ reqs[r].pc = "predict"
    /\ LET vector == validated_metrics[Frame(r)]
           out == predict(cancer_detector, vector)
       IN  reqs' = [reqs EXCEPT ![r] =
                     [@ EXCEPT
                        !.pc = "done",
                        !.calls = @ + 1,
                        !.arg = vector,
                        !.predicted = out,
                        !.response = IF out.raised
                                     THEN ErrorResponse("PredictError")
                                     ELSE SuccessResponse(out.class, out.probability)]]
    /\ UNCHANGED <<phase, artifact, dataset, cancer_detector, workers, validated_metrics>>

\* lines 75-94
provide_example_cases(r) ==
    /\ CanStart(r)
    /\ \E resp \in SampleResponses(dataset) :
         reqs' = [reqs EXCEPT ![r] =
                   [IdleRequest EXCEPT
                      !.pc = "done", !.route = "samples",
                      !.reads = 1, !.response = resp]]
    /\ UNCHANGED <<phase, artifact, dataset, cancer_detector, workers, validated_metrics>>

\* the response has been sent and the call frame is gone
complete(r) ==
    /\ phase = "serving"
    /\ reqs[r].pc = "done"
    /\ reqs' = [reqs EXCEPT ![r] = IdleRequest]
    /\ validated_metrics' = [validated_metrics EXCEPT ![r] = EmptyMetrics]
    /\ UNCHANGED <<phase, artifact, dataset, cancer_detector, workers>>

Next ==
    \/ initialize_system
    \/ \E r \in Requests : home_page(r)
    \/ \E r \in Requests : handle_inference(r)
    \/ \E r \in Requests : handle_inference_predict(r)
    \/ \E r \in Requests : provide_example_cases(r)
    \/ \E r \in Requests : complete(r)

Spec == Init /\ [][Next]_vars

SpecThreaded == InitThreaded /\ [][Next]_vars

----------------------------------------------------------------------------
(* Vocabulary of the properties *)

Done(r) == reqs[r].pc = "done"
PredictDone(r) == Done(r) /\ reqs[r].route = "predict"
SamplesDone(r) == Done(r) /\ reqs[r].route = "samples"
Succeeded(r) == PredictDone(r) /\ reqs[r].response.kind = "success"

\* the required feature names, when the wrapper has them
Required == IF cancer_detector.has_names THEN cancer_detector.feature_names ELSE <<>>
RequiredSet == {Required[i] : i \in 1..Len(Required)}

\* the body does not carry the field as a key
Absent(body, f) == body.kind # "object" \/ f \notin DOMAIN body.fields

\* a float that is a number below 0
Negative(x) == (~ x.nan) /\ x.n <= -1

\* the body carries a value for the field that float() rejects or that is negative
BadValue(body, f) ==
    /\ body.kind = "object"
    /\ f \in DOMAIN body.fields
    /\ \/ ~ Float(body.fields[f]).ok
       \/ Negative(Float(body.fields[f]).val)

\* float() rejects the value with an exception other than ValueError and TypeError
Overflows(body, f) ==
    /\ BadValue(body, f)
    /\ ~ Float(body.fields[f]).ok
    /\ Float(body.fields[f]).exc \notin {"ValueError", "TypeError"}

Defective(body, f) == Absent(body, f) \/ BadValue(body, f)

HasDefect(body) == \E i \in 1..Len(Required) : Defective(body, Required[i])

\* the first required feature, in the order of feature_names, that is absent or bad
FirstDefect(body) ==
    Required[CHOOSE i \in 1..Len(Required) :
               /\ Defective(body, Required[i])
               /\ \A j \in 1..(i - 1) : ~ Defective(body, Required[j])]

\* the message of a 400 response names the field
NamesField(resp, f) == resp.kind = "validation" /\ resp.message[2] = f

----------------------------------------------------------------------------
(* C1 *)

\* no value of the body makes float() overflow
NoOverflow(body) == \A f \in RequiredSet : ~ Overflows(body, f)

\* C1 as stated, on JSON object bodies: for every required feature absent from
\* the body, the response is a 400 whose message names that feature
C1_EveryAbsentFieldNamed ==
    \A r \in Requests :
      (/\ PredictDone(r)
       /\ cancer_detector.loaded
       /\ reqs[r].data_input.kind = "object"
       /\ NoOverflow(reqs[r].data_input)) =>
        \A f \in RequiredSet :
          Absent(reqs[r].data_input, f) =>
            /\ reqs[r].response.code = 400
            /\ NamesField(reqs[r].response, f)

\* C1 amended: for a JSON object body, when the first required feature (in the
\* order of feature_names) that is absent or invalid is an absent one, the
\* response is a 400 with the message "Missing: <that feature>"
C1_FirstAbsentFieldNamed ==
    \A r \in Requests :
      (/\ PredictDone(r)
       /\ reqs[r].data_input.kind = "object"
       /\ HasDefect(reqs[r].data_input)
       /\ Absent(reqs[r].data_input, FirstDefect(reqs[r].data_input))) =>
        /\ reqs[r].response.code = 400
        /\ reqs[r].response.kind = "validation"
        /\ reqs[r].response.success = FALSE
        /\ reqs[r].response.message =
             Message("Missing: ", FirstDefect(reqs[r].data_input))
        /\ reqs[r].calls = 0

\* a body that omits every required feature was answered
C1_Witness ==
    \E r \in Requests :
      /\ PredictDone(r)
      /\ cancer_detector.loaded
      /\ reqs[r].data_input.kind = "object"
      /\ \A f \in FeatureSet : Absent(reqs[r].data_input, f)
      /\ reqs[r].response.code = 400

----------------------------------------------------------------------------
(* C2 *)

----------------------------------------------------------------------------
(* C3 *)

\* C3: in every success response, class 1 gives label "Benign", is_benign true,
\* the BENIGN description and confidence round(p*100, 2); class 0 gives label
\* "Malignant", is_benign false, the MALIGNANT description and confidence
\* round((1-p)*100, 2); is_benign holds exactly when the label is "Benign"; and
\* a returned prediction always produces a success response
C3_LabelAndConfidence ==
    \A r \in Requests :
      /\ Succeeded(r) =>
           LET out == reqs[r].response.output
               c == reqs[r].predicted.class
               p == reqs[r].predicted.probability
           IN  /\ reqs[r].calls = 1
               /\ ~ reqs[r].predicted.raised
               /\ c = 1 => /\ out.label = "Benign"
                           /\ out.is_benign = TRUE
                           /\ out.description = BenignText
                           /\ out.confidence = Round2(p)
               /\ c = 0 => /\ out.label = "Malignant"
                           /\ out.is_benign = FALSE
                           /\ out.description = MalignantText
                           /\ out.confidence = Round2(ProbScale - p)
               /\ out.is_benign <=> (out.label = "Benign")
               /\ out.label \in {"Benign", "Malignant"}
               /\ out.disclaimer = Disclaimer
      /\ (PredictDone(r) /\ reqs[r].calls = 1 /\ ~ reqs[r].predicted.raised) =>
           Succeeded(r)

\* the model returned class 0 with probability 0.92: "Malignant" at 8.00 percent
C3_Witness ==
    \E r \in Requests :
      /\ Succeeded(r)
      /\ reqs[r].predicted.class = 0
      /\ reqs[r].predicted.probability = (92 * ProbScale) \div 100
      /\ reqs[r].response.output.label = "Malignant"
      /\ reqs[r].response.output.confidence = 800

----------------------------------------------------------------------------
(* C4 *)

\* a float that is a number greater than or equal to 0
NonNegativeNumber(x) == (~ x.nan) /\ x.n >= 0

\* C4 as stated: predict is called only with a vector whose keys are exactly the
\* required feature names and whose values are all numbers >= 0, and never for
\* a request that ends in a 400
C4_PredictOnlyValidated ==
    \A r \in Requests :
      /\ (reqs[r].calls > 0 /\ cancer_detector.loaded) =>
           /\ DOMAIN reqs[r].arg = RequiredSet
           /\ \A f \in DOMAIN reqs[r].arg : NonNegativeNumber(reqs[r].arg[f])
      /\ (Done(r) /\ reqs[r].response.code = 400) => reqs[r].calls = 0

----------------------------------------------------------------------------
(* C5 *)

\* C5: a failure that is no validation error (reading the body, a body that is
\* no container, the model wrapper raising) is answered with 500 and
\* {status: error, details: <exception text>}; every answered request has exactly
\* one of the three shapes; predict is called at most once; an error response
\* carries no success fields
C5_ErrorsAnswered500 ==
    \A r \in Requests :
      PredictDone(r) =>
        LET resp == reqs[r].response
            body == reqs[r].data_input
        IN  /\ \/ resp.kind = "success" /\ resp.code = 200
               \/ resp.kind = "validation" /\ resp.code = 400
               \/ resp.kind = "error" /\ resp.code = 500
            /\ reqs[r].calls <= 1
            /\ resp.kind = "error" =>
                 /\ DOMAIN resp = {"code", "kind", "status", "details"}
                 /\ resp.status = "error"
            /\ resp.kind = "success" => reqs[r].calls = 1
            /\ body.kind = "malformed" =>
                 resp.kind = "error" /\ resp.details = "BadRequest"
            /\ (body.kind \in {"null", "number"}) =>
                 resp.kind = "error" /\ resp.details = "TypeError"
            /\ (reqs[r].calls = 1 /\ reqs[r].predicted.raised) =>
                 resp.kind = "error" /\ resp.details = "PredictError"

\* the model wrapper raised on a validated vector and the request got a 500
C5_Witness ==
    \E r \in Requests :
      /\ PredictDone(r)
      /\ cancer_detector.loaded
      /\ reqs[r].calls = 1
      /\ reqs[r].predicted.raised
      /\ reqs[r].response.code = 500

----------------------------------------------------------------------------
(* C6 *)

\* C6 as stated: no request to any route is handled while the model is not loaded
C6_NoTrafficUnloaded ==
    \A r \in Requests : reqs[r].pc # "idle" => cancer_detector.loaded

----------------------------------------------------------------------------
(* C7 *)

\* C7: a successful /fetch-samples payload holds exactly a benign_case, taken
\* from a row with diagnosis 1, and a malignant_case, taken from a row with
\* diagnosis 0; neither has a diagnosis key; every other column is unchanged
C7_OneSamplePerClass ==
    \A r \in Requests :
      (SamplesDone(r) /\ reqs[r].response.kind = "samples") =>
        LET pay == reqs[r].response.payload
            others == dataset.columns \ {LabelColumn}
        IN  /\ reqs[r].response.success = TRUE
            /\ DOMAIN pay = {"benign_case", "malignant_case"}
            /\ \E i \in 1..Len(dataset.rows) :
                 /\ dataset.rows[i][LabelColumn] = 1
                 /\ DOMAIN pay.benign_case = others
                 /\ \A c \in others : pay.benign_case[c] = dataset.rows[i][c]
            /\ \E i \in 1..Len(dataset.rows) :
                 /\ dataset.rows[i][LabelColumn] = 0
                 /\ DOMAIN pay.malignant_case = others
                 /\ \A c \in others : pay.malignant_case[c] = dataset.rows[i][c]

\* samples were served from a file with a row of each class
C7_Witness ==
    \E r \in Requests :
      /\ SamplesDone(r)
      /\ reqs[r].response.kind = "samples"
      /\ Len(dataset.rows) = 2
      /\ reqs[r].response.payload.benign_case["radius_mean"] = 2
      /\ reqs[r].response.payload.malignant_case["radius_mean"] = 1

----------------------------------------------------------------------------
(* C8 *)

\* the dataset cannot give one sample per class
CannotSample(ds) ==
    \/ ~ ds.exists
    \/ LabelColumn \notin ds.columns
    \/ ~ \E i \in 1..Len(ds.rows) : ds.rows[i][LabelColumn] = 1
    \/ ~ \E i \in 1..Len(ds.rows) : ds.rows[i][LabelColumn] = 0

\* C8 as stated: a failure of /fetch-samples is surfaced with a 500 status
C8_FailureIs500 ==
    \A r \in Requests :
      (SamplesDone(r) /\ CannotSample(dataset)) => reqs[r].response.code = 500

\* C8 amended: every failure of /fetch-samples (file missing, no diagnosis
\* column, no row of one class) is answered with {success: false, error: <text>}
\* and no payload, after one read of the dataset, with the default status 200
C8_FailureStructured ==
    \A r \in Requests :
      SamplesDone(r) =>
        LET resp == reqs[r].response IN
          /\ reqs[r].reads = 1
          /\ CannotSample(dataset) =>
               /\ resp.kind = "samples_failed"
               /\ resp.success = FALSE
               /\ resp.code = 200
               /\ DOMAIN resp = {"code", "kind", "success", "error"}
               /\ resp.error \in {"FileNotFoundError", "KeyError", "ValueError"}
          /\ ~ CannotSample(dataset) => resp.kind = "samples"

\* /fetch-samples was called with the dataset file missing
C8_Witness ==
    \E r \in Requests :
      /\ SamplesDone(r)
      /\ ~ dataset.exists
      /\ reqs[r].response.success = FALSE

----------------------------------------------------------------------------
(* C10 *)

\* C10: the confidence of every success response lies in [0, 100] (0..10000
\* hundredths of a percent)
C10_ConfidenceInRange ==
    \A r \in Requests :
      Succeeded(r) =>
        /\ reqs[r].response.output.confidence >= 0
        /\ reqs[r].response.output.confidence <= 10000

\* class 0 with probability 0: the confidence is 100.00
C10_Witness ==
    \E r \in Requests :
      /\ Succeeded(r)
      /\ reqs[r].predicted.class = 0
      /\ reqs[r].predicted.probability = 0
      /\ reqs[r].response.output.confidence = 10000

----------------------------------------------------------------------------
(* C9 *)

\* the state shared between requests
shared == <<cancer_detector, dataset, artifact>>

\* the responses a request can get when it is the only one being handled
AloneResponses(req) ==
    CASE req.route = "predict" ->
           LET res == Validate(cancer_detector, req.data_input)
               out == predict(cancer_detector, res.metrics)
           IN  IF res.kind # "ok" THEN {res.response}
               ELSE IF out.raised THEN {ErrorResponse("PredictError")}
               ELSE {SuccessResponse(out.class, out.probability)}
      [] req.route = "samples" -> SampleResponses(dataset)
      [] OTHER -> {[code |-> 200, kind |-> "page", template |-> "index.html",
                    feature_names |-> cancer_detector.feature_names]}

\* C9: once the service serves, no step of a handler changes the loaded model,
\* its feature_names, the artifact or the dataset file; a step of one request
\* changes neither another request nor another request's validated_metrics; and
\* whatever the interleaving, every answered request has a response it can get
\* when handled alone
C9_RequestsIndependent ==
    [][/\ phase = "serving" => UNCHANGED shared
       /\ \A r \in Requests :
            reqs'[r] # reqs[r] =>
              \A q \in Requests \ {r} :
                /\ reqs'[q] = reqs[q]
                /\ validated_metrics'[q] = validated_metrics[q]
       /\ \A r \in Requests :
            reqs'[r].pc = "done" => reqs'[r].response \in AloneResponses(reqs'[r])
      ]_vars

\* two /predict requests with different valid vectors were in flight together,
\* and the first was answered while the second waited for the model
C9_Witness ==
    /\ Succeeded("t1")
    /\ reqs["t2"].pc = "predict"
    /\ reqs["t2"].route = "predict"
    /\ validated_metrics["t1"] # validated_metrics["t2"]
    /\ reqs["t1"].arg = validated_metrics["t1"]

====
